---- MODULE Spec2Model ----
(***************************************************************************)
(* Model of the knowledge-graph query engine of backend/kg_endpoints.py    *)
(* and backend/kg_file_endpoints.py, with the registry of backend/api.py.  *)
(*                                                                         *)
(* A graph is a networkx.Graph: an insertion-ordered node list, one        *)
(* attribute map per node and the edges in edge-iteration order, each edge *)
(* reported from its endpoint that comes first in the node order.  Graph   *)
(* objects live in a heap and are reached through references, so that a    *)
(* copy and an alias are different things.                                 *)
(***************************************************************************)
EXTENDS Integers, Sequences, FiniteSets, TLC

VARIABLES
    KG_BY_FILE,   \* api.py: file name -> reference of the loaded per-file index
    heap,         \* reference -> graph object (NoGraph when not allocated)
    pc,           \* per worker: position in its request handler
    req,          \* per worker: the request being served
    G,            \* per worker: reference held in the handler's local G
    H,            \* per worker: reference held in the local H
    nodes,        \* per worker: _ego_subgraph's visited set
    frontier,     \* per worker: _ego_subgraph's frontier
    hop,          \* per worker: iterations of the hop loop run so far
    resp          \* per worker: the response (status and body)

vars == <<KG_BY_FILE, heap, pc, req, G, H, nodes, frontier, hop, resp>>

-----------------------------------------------------------------------------
(* Python values *)

None == "<None>"
EmptyMap == <<>>

Range(s) == {s[i] : i \in DOMAIN s}
Min(a, b) == IF a <= b THEN a ELSE b

\* dict.get(key, default)
Get(d, k, default) == IF k \in DOMAIN d THEN d[k] ELSE default

\* Python truth value of an attribute value: None and "" are falsy
Truthy(v) == v # None /\ v # ""

\* The characters of the strings used as node ids, labels and queries
Chars(s) ==
    CASE s = ""   -> <<>>
      [] s = "A"  -> <<"A">>
      [] s = "B"  -> <<"B">>
      [] s = "C"  -> <<"C">>
      [] s = "D"  -> <<"D">>
      [] s = "E"  -> <<"E">>
      [] s = "F"  -> <<"F">>
      [] s = "G"  -> <<"G">>
      [] s = "H"  -> <<"H">>
      [] s = "a"  -> <<"a">>
      [] s = "b"  -> <<"b">>
      [] s = "aB" -> <<"a", "B">>
      [] s = "Z"  -> <<"Z">>
      [] s = "cd" -> <<"c", "d">>

\* str.lower() on one character
LowerChar(c) ==
    CASE c = "A" -> "a"
      [] c = "B" -> "b"
      [] c = "C" -> "c"
      [] c = "D" -> "d"
      [] c = "E" -> "e"
      [] c = "F" -> "f"
      [] c = "G" -> "g"
      [] c = "H" -> "h"
      [] c = "Z" -> "z"
      [] OTHER   -> c

\* str(x).lower(), as a character sequence
lower(s) == [i \in 1..Len(Chars(s)) |-> LowerChar(Chars(s)[i])]

\* Python's `sub in s` on character sequences
Contains(sub, s) ==
    \E i \in 0..(Len(s) - Len(sub)) : SubSeq(s, i + 1, i + Len(sub)) = sub

-----------------------------------------------------------------------------
(* networkx.Graph *)

NoGraph == [nodes |-> <<>>, nattr |-> EmptyMap, edges |-> <<>>, live |-> FALSE]
EmptyGraph == [nodes |-> <<>>, nattr |-> EmptyMap, edges |-> <<>>, live |-> TRUE]

NodeSet(g) == Range(g.nodes)

\* G.has_node(n), `n in G`
has_node(g, n) == n \in NodeSet(g)

number_of_nodes(g) == Len(g.nodes)
number_of_edges(g) == Len(g.edges)

\* G.degree[n]: a self-loop counts twice
degree(g, n) ==
    Cardinality({i \in DOMAIN g.edges : g.edges[i].u = n})
    + Cardinality({i \in DOMAIN g.edges : g.edges[i].v = n})

\* G.neighbors(u)
neighbors(g, u) ==
    {g.edges[i].v : i \in {j \in DOMAIN g.edges : g.edges[j].u = u}}
    \cup {g.edges[i].u : i \in {j \in DOMAIN g.edges : g.edges[j].v = u}}

\* Position of node n in a node order
Pos(order, n) == CHOOSE i \in DOMAIN order : order[i] = n

\* Edge-iteration order of a graph with node order `order` whose edges, in
\* adjacency order, are es: for each node in order, its edges to nodes not
\* yet seen, each reported from the node that comes first.
RECURSIVE EdgeIter(_, _, _)
EdgeIter(order, es, i) ==
    IF i > Len(order) THEN <<>>
    ELSE LET first(e) == IF Pos(order, e.u) <= Pos(order, e.v) THEN e.u ELSE e.v
             other(e) == IF Pos(order, e.u) <= Pos(order, e.v) THEN e.v ELSE e.u
             mine     == SelectSeq(es, LAMBDA e : first(e) = order[i])
         IN  [k \in 1..Len(mine) |->
                 [u |-> first(mine[k]), v |-> other(mine[k]), attr |-> mine[k].attr]]
             \o EdgeIter(order, es, i + 1)

\* Variant of remove_nodes_from: the nodes go, their edges stay
remove_nodes_keep_edges(g, S) ==
    [nodes |-> SelectSeq(g.nodes, LAMBDA n : n \notin S),
     nattr |-> [n \in NodeSet(g) \ S |-> g.nattr[n]],
     edges |-> g.edges,
     live  |-> g.live]

\* G.remove_nodes_from(S): the nodes of S go, with every edge touching them
remove_nodes_from(g, S) ==
    [nodes |-> SelectSeq(g.nodes, LAMBDA n : n \notin S),
     nattr |-> [n \in NodeSet(g) \ S |-> g.nattr[n]],
     edges |-> SelectSeq(g.edges, LAMBDA e : e.u \notin S /\ e.v \notin S),
     live  |-> g.live]

\* All orderings of a finite set
Orderings(S) ==
    {s \in [1..Cardinality(S) -> S] : \A i, j \in DOMAIN s : s[i] = s[j] => i = j}

\* Node orders G.subgraph(keep).copy() can have: the subgraph view iterates
\* the graph's own order, except that it iterates the kept *set* (whose
\* order is that of a Python set) when the set has less than half the nodes.
SubgraphOrders(g, keep) ==
    IF 2 * Cardinality(keep \cap NodeSet(g)) < number_of_nodes(g)
    THEN Orderings(keep \cap NodeSet(g))
    ELSE {SelectSeq(g.nodes, LAMBDA n : n \in keep)}

\* Variant of SubgraphCopy: of the edges between kept nodes, only those of
\* the first kept node are copied
SubgraphStar(g, order) ==
    [nodes |-> order,
     nattr |-> [n \in Range(order) |-> g.nattr[n]],
     edges |-> EdgeIter(order,
                        SelectSeq(g.edges,
                                  LAMBDA e : /\ e.u \in Range(order) /\ e.v \in Range(order)
                                             /\ order[1] \in {e.u, e.v}),
                        1),
     live  |-> TRUE]

\* G.subgraph(keep).copy() with the resulting node order `order`
SubgraphCopy(g, order) ==
    [nodes |-> order,
     nattr |-> [n \in Range(order) |-> g.nattr[n]],
     edges |-> EdgeIter(order,
                        SelectSeq(g.edges,
                                  LAMBDA e : e.u \in Range(order) /\ e.v \in Range(order)),
                        1),
     live  |-> TRUE]

\* Nodes reachable from the set S (the plain BFS of nx.connected_components)
RECURSIVE _plain_bfs(_, _)
_plain_bfs(g, S) ==
    LET T == S \cup UNION {neighbors(g, u) : u \in S}
    IN  IF T = S THEN S ELSE _plain_bfs(g, T)

\* nx.connected_components(G): one node set per component, in the order the
\* components are met when the nodes are walked in node order
RECURSIVE connected_components(_, _, _)
connected_components(g, i, seen) ==
    IF i > Len(g.nodes) THEN <<>>
    ELSE IF g.nodes[i] \in seen THEN connected_components(g, i + 1, seen)
    ELSE LET c == _plain_bfs(g, {g.nodes[i]})
         IN  <<c>> \o connected_components(g, i + 1, seen \cup c)

number_connected_components(g) == Len(connected_components(g, 1, {}))

\* sorted(comps, key=len, reverse=True): stable, largest first
RECURSIVE SortedByLenDesc(_)
SortedByLenDesc(s) ==
    IF s = <<>> THEN <<>>
    ELSE LET rest == SortedByLenDesc(SubSeq(s, 1, Len(s) - 1))
             x    == s[Len(s)]
             k    == Cardinality({i \in DOMAIN rest :
                                    Cardinality(rest[i]) >= Cardinality(x)})
         IN  SubSeq(rest, 1, k) \o <<x>> \o SubSeq(rest, k + 1, Len(rest))

-----------------------------------------------------------------------------
(* kg_endpoints.py / kg_file_endpoints.py: the pure parts *)

\* Variant of DegreeVictims: the comparison is <=, and it is made for every
\* min_degree
DegreeVictimsLE(g, min_degree) ==
    {n \in NodeSet(g) : degree(g, n) <= min_degree}

\* Variant of DegreeVictims: degrees are read again after each removal, until
\* no node is below min_degree
RECURSIVE DegreeVictimsRecomputed(_, _)
DegreeVictimsRecomputed(g, min_degree) ==
    LET low == {n \in NodeSet(g) : degree(g, n) < min_degree}
    IN  IF min_degree <= 0 \/ low = {} THEN {}
        ELSE low \cup DegreeVictimsRecomputed(remove_nodes_from(g, low), min_degree)

\* _filtered_graph, step 1: nodes whose degree, read before any removal,
\* is below min_degree
DegreeVictims(g, min_degree) ==
    IF min_degree > 0
    THEN {n \in NodeSet(g) : degree(g, n) < min_degree}
    ELSE {}

\* Variant of QueryVictims: the strings are compared as they are
QueryVictimsCaseSensitive(g, q) ==
    IF q # None /\ q # ""
    THEN {n \in NodeSet(g) :
            /\ ~Contains(Chars(q), Chars(n))
            /\ ~Contains(Chars(q), Chars(Get(g.nattr[n], "label", "")))}
    ELSE {}

\* _filtered_graph, step 2: nodes whose id and label both miss the query
QueryVictims(g, q) ==
    IF q # None /\ q # ""
    THEN {n \in NodeSet(g) :
            /\ ~Contains(lower(q), lower(n))
            /\ ~Contains(lower(q), lower(Get(g.nattr[n], "label", "")))}
    ELSE {}

\* Variant of GreedyKeep: a component that does not fit is skipped and the
\* loop goes on
RECURSIVE GreedyKeepSkipping(_, _, _, _)
GreedyKeepSkipping(comps, i, keep, max_nodes) ==
    IF i > Len(comps) THEN keep
    ELSE IF Cardinality(keep) + Cardinality(comps[i]) > max_nodes
         THEN GreedyKeepSkipping(comps, i + 1, keep, max_nodes)
    ELSE GreedyKeepSkipping(comps, i + 1, keep \cup comps[i], max_nodes)

\* Variant of GreedyKeep: the first component is kept whatever its size
RECURSIVE GreedyKeepFirstAlways(_, _, _, _)
GreedyKeepFirstAlways(comps, i, keep, max_nodes) ==
    IF i > Len(comps) THEN keep
    ELSE IF i > 1 /\ Cardinality(keep) + Cardinality(comps[i]) > max_nodes THEN keep
    ELSE GreedyKeepFirstAlways(comps, i + 1, keep \cup comps[i], max_nodes)

\* _filtered_graph, step 3: the loop that accepts whole components
RECURSIVE GreedyKeep(_, _, _, _)
GreedyKeep(comps, i, keep, max_nodes) ==
    IF i > Len(comps) THEN keep
    ELSE IF Cardinality(keep) + Cardinality(comps[i]) > max_nodes THEN keep
    ELSE GreedyKeep(comps, i + 1, keep \cup comps[i], max_nodes)

\* Variant of DownsampleKeep: the first max_nodes nodes, whatever their component
DownsampleKeepFirstN(g, max_nodes) ==
    Range(SubSeq(g.nodes, 1, Min(max_nodes, Len(g.nodes))))

DownsampleKeep(g, max_nodes) ==
    GreedyKeep(SortedByLenDesc(connected_components(g, 1, {})), 1, {}, max_nodes)

NeedsDownsample(g, max_nodes) ==
    number_of_nodes(g) > max_nodes /\ number_of_nodes(g) > 0

\* _ego_subgraph: list(nodes)[:max_nodes] on a Python set.  The order of a
\* set of strings is that of their hashes, so any max_nodes of them can come
\* first.
Truncations(visited, max_nodes) ==
    {S \in SUBSET visited : Cardinality(S) = Min(max_nodes, Cardinality(visited))}

\* Variant of NodeEntry: the degree is the number of neighbours
NodeEntryNeighborCount(g, n) ==
    LET d0 == ("id" :> n) @@ g.nattr[n]
        d1 == IF "label" \in DOMAIN d0 THEN d0 ELSE d0 @@ ("label" :> d0["id"])
        d2 == IF "degree" \in DOMAIN d1 THEN d1
              ELSE d1 @@ ("degree" :> Cardinality(neighbors(g, n)))
    IN  d2

\* _nx_to_node_link: one node entry
NodeEntry(g, n) ==
    LET d0 == ("id" :> n) @@ g.nattr[n]
        d1 == IF "label" \in DOMAIN d0 THEN d0 ELSE d0 @@ ("label" :> d0["id"])
        d2 == IF "degree" \in DOMAIN d1 THEN d1
              ELSE d1 @@ ("degree" :> (IF has_node(g, n) THEN degree(g, n) ELSE 0))
    IN  d2

\* f"e{i}"
EdgeIdStr(i) == <<"e0", "e1", "e2", "e3", "e4", "e5", "e6", "e7", "e8", "e9", "e10">>[i + 1]

\* Variant of EdgeEntry: the relation replaces a label the edge has
EdgeEntryRelationWins(g, i) ==
    LET e  == g.edges[i + 1]
        d0 == ("source" :> e.u) @@ ("target" :> e.v) @@ e.attr
        d1 == IF "id" \in DOMAIN d0 THEN d0 ELSE d0 @@ ("id" :> EdgeIdStr(i))
        d2 == IF "relation" \in DOMAIN d1
              THEN ("label" :> d1["relation"]) @@ d1
              ELSE d1
    IN  d2

\* Variant of EdgeEntry: the edges are numbered from 1
EdgeEntryFromOne(g, i) ==
    LET e  == g.edges[i + 1]
        d0 == ("source" :> e.u) @@ ("target" :> e.v) @@ e.attr
        d1 == IF "id" \in DOMAIN d0 THEN d0 ELSE d0 @@ ("id" :> EdgeIdStr(i + 1))
        d2 == IF "relation" \in DOMAIN d1 /\ "label" \notin DOMAIN d1
              THEN d1 @@ ("label" :> d1["relation"])
              ELSE d1
    IN  d2

\* _nx_to_node_link: the entry of the edge at (0-based) index i
EdgeEntry(g, i) ==
    LET e  == g.edges[i + 1]
        d0 == ("source" :> e.u) @@ ("target" :> e.v) @@ e.attr
        d1 == IF "id" \in DOMAIN d0 THEN d0 ELSE d0 @@ ("id" :> EdgeIdStr(i))
        d2 == IF "relation" \in DOMAIN d1 /\ "label" \notin DOMAIN d1
              THEN d1 @@ ("label" :> d1["relation"])
              ELSE d1
    IN  d2

_nx_to_node_link(g) ==
    [nodes |-> [k \in 1..Len(g.nodes) |-> NodeEntry(g, g.nodes[k])],
     edges |-> [k \in 1..Len(g.edges) |-> EdgeEntry(g, k - 1)]]

\* _derive_triplets_from_edges: the row of one edge; the pass-through
\* attributes are unpacked last into the dict literal, so they win
TripletRow(e) ==
    LET d      == e.attr
        rel    == IF Truthy(Get(d, "relation", None))
                  THEN d["relation"] ELSE Get(d, "label", None)
        extras == [k \in DOMAIN d \ {"relation", "label"} |-> d[k]]
    IN  extras @@ ("subject" :> e.u) @@ ("relation" :> rel) @@ ("object" :> e.v)

_derive_triplets_from_edges(g) ==
    [k \in 1..Len(g.edges) |-> TripletRow(g.edges[k])]

\* Variant of Slice: trips[skip : limit]
SliceToLimit(s, skip, limit) == SubSeq(s, skip + 1, Min(limit, Len(s)))

\* trips[skip : skip + limit]
Slice(s, skip, limit) == SubSeq(s, skip + 1, Min(skip + limit, Len(s)))

TripletsPage(g, skip, limit) ==
    LET trips == _derive_triplets_from_edges(g)
    IN  [count |-> Len(trips), skip |-> skip, limit |-> limit,
         items |-> Slice(trips, skip, limit)]

\* Variant of KGStats: the components are counted as nodes minus edges
KGStatsForest(g) ==
    [nodes |-> number_of_nodes(g),
     edges |-> number_of_edges(g),
     connected_components |-> number_of_nodes(g) - number_of_edges(g)]

\* stats: the KGStats the handler returns
KGStats(g) ==
    [nodes |-> number_of_nodes(g),
     edges |-> number_of_edges(g),
     connected_components |-> number_connected_components(g)]

-----------------------------------------------------------------------------
(* The registry and the workers *)

Workers == {1, 2}

\* File names: a.md and c.md are the Markdown files of the summary directory,
\* b.md is a name with no file behind it
Files == {"a.md", "b.md", "c.md"}
LoadedFiles == {"a.md", "c.md"}
\* The file names in ascending string order
FileOrder == <<"a.md", "b.md", "c.md">>
\* sorted(S) for a set of file names
sorted(S) == SelectSeq(FileOrder, LAMBDA f : f \in S)
\* Path(file_name).stem
Stem(f) ==
    CASE f = "a.md" -> "a"
      [] f = "b.md" -> "b"
      [] f = "c.md" -> "c"

\* The lifespan coroutine, beside the workers
Lifespan == 0

\* References of graph objects: the aggregate index behind /kg, one index
\* per file, and each worker's locals
\* Variant of GSlot: G is one module-level variable shared by the workers
GSlotShared(p) == "G1"
GSlot(p) == <<"G1", "G2">>[p]
HSlot(p) == <<"H1", "H2">>[p]
SSlot(p) == <<"S1", "S2">>[p]
StoredRefs == {"KG_INDEX"} \cup Files
Refs == StoredRefs \cup {GSlot(p) : p \in Workers}
            \cup {HSlot(p) : p \in Workers} \cup {SSlot(p) : p \in Workers}

NoReq ==
    [kind |-> "none", file |-> None, query |-> None, min_degree |-> 0,
     max_nodes |-> 1, center |-> None, depth |-> 1, skip |-> 0, limit |-> 1]

NoResp == [status |-> 0, body |-> None]
NotFound == [status |-> 404, body |-> None]
\* The response FastAPI gives when a Query(...) constraint fails
Invalid == [status |-> 422, body |-> None]
Ok(body) == [status |-> 200, body |-> body]

\* Variant of _get_index_by_file: KG_BY_FILE.setdefault(file_name, <empty index>)
_get_index_by_file_setdefault(reg, file_name) ==
    [reg |-> IF file_name \in DOMAIN reg THEN reg ELSE reg @@ (file_name :> file_name),
     idx |-> IF file_name \in DOMAIN reg THEN reg[file_name] ELSE file_name]

\* api.py _get_index_by_file: KG_BY_FILE.get(file_name); the registry it
\* leaves behind and the index reference (or None) it returns
_get_index_by_file(reg, file_name) ==
    [reg |-> reg, idx |-> Get(reg, file_name, None)]

\* api.py KG_PERSIST_BY_FILE: written with KG_BY_FILE, one entry per key, each
\* the literal ".kg_single"
KG_PERSIST_BY_FILE == [f \in DOMAIN KG_BY_FILE |-> ".kg_single"]

\* Variant of _list_files: sorted(..., reverse=True)
_list_files_reversed ==
    LET keys == sorted(DOMAIN KG_BY_FILE)
    IN  [k \in 1..Len(keys) |->
            <<keys[Len(keys) + 1 - k], Get(KG_PERSIST_BY_FILE, keys[Len(keys) + 1 - k], None)>>]

\* api.py _list_files: (file name, persist dir) for the sorted keys
_list_files ==
    LET keys == sorted(DOMAIN KG_BY_FILE)
    IN  [k \in 1..Len(keys) |-> <<keys[k], Get(KG_PERSIST_BY_FILE, keys[k], None)>>]

\* get_files: one KGFileEntry per listed file
get_files ==
    [k \in 1..Len(_list_files) |->
        LET file_name == _list_files[k][1]
            idx       == _get_index_by_file(KG_BY_FILE, file_name).idx
        IN  [file        |-> file_name,
             stem        |-> Stem(file_name),
             persist_dir |-> _list_files[k][2],
             nodes       |-> IF idx = None THEN None ELSE number_of_nodes(heap[idx]),
             edges       |-> IF idx = None THEN None ELSE number_of_edges(heap[idx])]]

\* The reference of the stored graph a request is about: the per-file index
\* for the /kg/file router, the aggregate index for the /kg router
StoredRef(r) == IF r.file = None THEN "KG_INDEX" ELSE Get(KG_BY_FILE, r.file, None)

FirstStage(kind) ==
    CASE kind = "node_link" -> "filter_copy"
      [] kind = "neighbors" -> "ego_init"
      [] kind = "triplets"  -> "triplets"
      [] kind = "stats"     -> "stats"

\* KGFrozenGraph.get_graph / idx.get_networkx_graph(): the caller gets a graph
\* object of its own, equal to the stored one
get_graph(p, ref) ==
    /\ heap' = [heap EXCEPT ![GSlot(p)] = [heap[ref] EXCEPT !.live = TRUE]]
    /\ G' = [G EXCEPT ![p] = GSlot(p)]

\* The first lines of every handler: resolve the graph, or fail with 404
Resolve(p) ==
    /\ pc[p] = "resolve"
    /\ IF req[p].file = None
       THEN /\ get_graph(p, "KG_INDEX")
            /\ pc' = [pc EXCEPT ![p] = FirstStage(req[p].kind)]
            /\ UNCHANGED <<KG_BY_FILE, resp>>
       ELSE LET got == _get_index_by_file(KG_BY_FILE, req[p].file)
            IN  /\ KG_BY_FILE' = got.reg
                /\ IF got.idx = None
                   THEN /\ resp' = [resp EXCEPT ![p] = NotFound]
                        /\ pc' = [pc EXCEPT ![p] = "done"]
                        /\ UNCHANGED <<heap, G>>
                   ELSE /\ get_graph(p, got.idx)
                        /\ pc' = [pc EXCEPT ![p] = FirstStage(req[p].kind)]
                        /\ UNCHANGED resp
    /\ UNCHANGED <<req, H, nodes, frontier, hop>>

\* Variant of FilterCopy: H = G, no copy
FilterNoCopy(p) ==
    /\ pc[p] = "filter_copy"
    /\ H' = [H EXCEPT ![p] = G[p]]
    /\ pc' = [pc EXCEPT ![p] = "filter_degree"]
    /\ UNCHANGED <<KG_BY_FILE, heap, req, G, nodes, frontier, hop, resp>>

\* _filtered_graph: H = G.copy()
FilterCopy(p) ==
    /\ pc[p] = "filter_copy"
    /\ heap' = [heap EXCEPT ![HSlot(p)] = heap[G[p]]]
    /\ H' = [H EXCEPT ![p] = HSlot(p)]
    /\ pc' = [pc EXCEPT ![p] = "filter_degree"]
    /\ UNCHANGED <<KG_BY_FILE, req, G, nodes, frontier, hop, resp>>

\* _filtered_graph: if min_degree > 0: H.remove_nodes_from(...)
FilterDegree(p) ==
    /\ pc[p] = "filter_degree"
    /\ heap' = [heap EXCEPT ![H[p]] =
                   remove_nodes_from(@, DegreeVictims(@, req[p].min_degree))]
    /\ pc' = [pc EXCEPT ![p] = "filter_query"]
    /\ UNCHANGED <<KG_BY_FILE, req, G, H, nodes, frontier, hop, resp>>

\* _filtered_graph: if q: H.remove_nodes_from(...)
FilterQuery(p) ==
    /\ pc[p] = "filter_query"
    /\ heap' = [heap EXCEPT ![H[p]] =
                   remove_nodes_from(@, QueryVictims(@, req[p].query))]
    /\ pc' = [pc EXCEPT ![p] = "filter_downsample"]
    /\ UNCHANGED <<KG_BY_FILE, req, G, H, nodes, frontier, hop, resp>>

\* Variant of FilterDownsample: the components are those of the graph the
\* handler received
FilterDownsampleOnInput(p) ==
    /\ pc[p] = "filter_downsample"
    /\ IF NeedsDownsample(heap[H[p]], req[p].max_nodes)
       THEN \E order \in SubgraphOrders(heap[H[p]],
                                        DownsampleKeep(heap[G[p]], req[p].max_nodes)) :
                /\ heap' = [heap EXCEPT ![SSlot(p)] = SubgraphCopy(heap[H[p]], order)]
                /\ H' = [H EXCEPT ![p] = SSlot(p)]
       ELSE UNCHANGED <<heap, H>>
    /\ pc' = [pc EXCEPT ![p] = "serialize"]
    /\ UNCHANGED <<KG_BY_FILE, req, G, nodes, frontier, hop, resp>>

\* _filtered_graph: the component-bounded downsample, H = H.subgraph(keep).copy()
FilterDownsample(p) ==
    /\ pc[p] = "filter_downsample"
    /\ IF NeedsDownsample(heap[H[p]], req[p].max_nodes)
       THEN \E order \in SubgraphOrders(heap[H[p]],
                                        DownsampleKeep(heap[H[p]], req[p].max_nodes)) :
                /\ heap' = [heap EXCEPT ![SSlot(p)] = SubgraphCopy(heap[H[p]], order)]
                /\ H' = [H EXCEPT ![p] = SSlot(p)]
       ELSE UNCHANGED <<heap, H>>
    /\ pc' = [pc EXCEPT ![p] = "serialize"]
    /\ UNCHANGED <<KG_BY_FILE, req, G, nodes, frontier, hop, resp>>

\* Variant of EgoInit: the center is not checked
EgoInitUnchecked(p) ==
    /\ pc[p] = "ego_init"
    /\ nodes' = [nodes EXCEPT ![p] = {req[p].center}]
    /\ frontier' = [frontier EXCEPT ![p] = {req[p].center}]
    /\ hop' = [hop EXCEPT ![p] = 0]
    /\ pc' = [pc EXCEPT ![p] = "ego_hop"]
    /\ UNCHANGED <<KG_BY_FILE, heap, req, G, H, resp>>

\* _ego_subgraph: the center check and the two initial sets
EgoInit(p) ==
    /\ pc[p] = "ego_init"
    /\ IF ~has_node(heap[G[p]], req[p].center)
       THEN /\ resp' = [resp EXCEPT ![p] = NotFound]
            /\ pc' = [pc EXCEPT ![p] = "done"]
            /\ UNCHANGED <<nodes, frontier, hop>>
       ELSE /\ nodes' = [nodes EXCEPT ![p] = {req[p].center}]
            /\ frontier' = [frontier EXCEPT ![p] = {req[p].center}]
            /\ hop' = [hop EXCEPT ![p] = 0]
            /\ pc' = [pc EXCEPT ![p] = "ego_hop"]
            /\ UNCHANGED resp
    /\ UNCHANGED <<KG_BY_FILE, heap, req, G, H>>

\* Variant of EgoStep: the frontier is not advanced
EgoStepStuck(g, visited, front) ==
    LET nxt == UNION {neighbors(g, u) : u \in front}
    IN  [nodes |-> visited \cup nxt, frontier |-> front]

\* _ego_subgraph: what one iteration of the hop loop makes of (nodes, frontier)
EgoStep(g, visited, front) ==
    LET nxt == UNION {neighbors(g, u) : u \in front}
    IN  [nodes |-> visited \cup nxt, frontier |-> nxt]

\* Variant of EgoHop: the loop has no break
EgoHopNoBreak(p) ==
    /\ pc[p] = "ego_hop"
    /\ hop[p] < req[p].depth
    /\ LET s == EgoStep(heap[G[p]], nodes[p], frontier[p])
       IN  /\ nodes' = [nodes EXCEPT ![p] = s.nodes]
           /\ frontier' = [frontier EXCEPT ![p] = s.frontier]
           /\ hop' = [hop EXCEPT ![p] = @ + 1]
           /\ pc' = [pc EXCEPT ![p] =
                        IF hop[p] + 1 = req[p].depth THEN "ego_return" ELSE "ego_hop"]
    /\ UNCHANGED <<KG_BY_FILE, heap, req, G, H, resp>>

\* _ego_subgraph: one iteration of `for _ in range(depth)`, with its break
EgoHop(p) ==
    /\ pc[p] = "ego_hop"
    /\ hop[p] < req[p].depth
    /\ LET s == EgoStep(heap[G[p]], nodes[p], frontier[p])
       IN  /\ nodes' = [nodes EXCEPT ![p] = s.nodes]
           /\ frontier' = [frontier EXCEPT ![p] = s.frontier]
           /\ hop' = [hop EXCEPT ![p] = @ + 1]
           /\ pc' = [pc EXCEPT ![p] =
                        IF Cardinality(s.nodes) >= req[p].max_nodes
                           \/ hop[p] + 1 = req[p].depth
                        THEN "ego_return" ELSE "ego_hop"]
    /\ UNCHANGED <<KG_BY_FILE, heap, req, G, H, resp>>

\* _ego_subgraph: return G.subgraph(list(nodes)[:max_nodes]).copy()
EgoReturn(p) ==
    /\ pc[p] = "ego_return"
    /\ \E kept \in Truncations(nodes[p], req[p].max_nodes) :
         \E order \in SubgraphOrders(heap[G[p]], kept) :
            /\ heap' = [heap EXCEPT ![SSlot(p)] = SubgraphCopy(heap[G[p]], order)]
            /\ H' = [H EXCEPT ![p] = SSlot(p)]
    /\ pc' = [pc EXCEPT ![p] = "serialize"]
    /\ UNCHANGED <<KG_BY_FILE, req, G, nodes, frontier, hop, resp>>

\* node_link / neighbors: return _nx_to_node_link(H)
Serialize(p) ==
    /\ pc[p] = "serialize"
    /\ resp' = [resp EXCEPT ![p] = Ok(_nx_to_node_link(heap[H[p]]))]
    /\ pc' = [pc EXCEPT ![p] = "done"]
    /\ UNCHANGED <<KG_BY_FILE, heap, req, G, H, nodes, frontier, hop>>

\* get_triplets / triplets
Triplets(p) ==
    /\ pc[p] = "triplets"
    /\ resp' = [resp EXCEPT ![p] =
                   Ok(TripletsPage(heap[G[p]], req[p].skip, req[p].limit))]
    /\ pc' = [pc EXCEPT ![p] = "done"]
    /\ UNCHANGED <<KG_BY_FILE, heap, req, G, H, nodes, frontier, hop>>

\* stats
Stats(p) ==
    /\ pc[p] = "stats"
    /\ resp' = [resp EXCEPT ![p] = Ok(KGStats(heap[G[p]]))]
    /\ pc' = [pc EXCEPT ![p] = "done"]
    /\ UNCHANGED <<KG_BY_FILE, heap, req, G, H, nodes, frontier, hop>>

\* The response is sent; the request's graph objects are garbage
Finish(p) ==
    /\ pc[p] = "done"
    /\ pc' = [pc EXCEPT ![p] = "idle"]
    /\ req' = [req EXCEPT ![p] = NoReq]
    /\ resp' = [resp EXCEPT ![p] = NoResp]
    /\ heap' = [heap EXCEPT ![GSlot(p)] = NoGraph, ![HSlot(p)] = NoGraph,
                            ![SSlot(p)] = NoGraph]
    /\ G' = [G EXCEPT ![p] = None]
    /\ H' = [H EXCEPT ![p] = None]
    /\ nodes' = [nodes EXCEPT ![p] = {}]
    /\ frontier' = [frontier EXCEPT ![p] = {}]
    /\ hop' = [hop EXCEPT ![p] = 0]
    /\ UNCHANGED KG_BY_FILE

\* A request arrives at an idle worker
Arrive(p, r) ==
    /\ pc[p] = "idle"
    /\ req' = [req EXCEPT ![p] = r]
    /\ pc' = [pc EXCEPT ![p] = "resolve"]
    /\ UNCHANGED <<KG_BY_FILE, heap, G, H, nodes, frontier, hop, resp>>

\* depth: Query(1, ge=1, le=4)
MaxDepth == 4
\* node-link max_nodes: Query(2000, ge=1, le=20000)
NodeLinkMaxNodesLe == 20000
\* neighbors max_nodes: Query(500, ge=1, le=5000)
NeighborsMaxNodesLe == 5000
\* triplets limit: Query(200, ge=1, le=2000)
TripletsLimitLe == 2000

\* Variant of Valid: depth is declared with ge=1 only
ValidDepthUncapped(r) ==
    CASE r.kind = "node_link" ->
            r.min_degree >= 0 /\ r.max_nodes >= 1 /\ r.max_nodes <= NodeLinkMaxNodesLe
      [] r.kind = "neighbors" ->
            r.depth >= 1 /\ r.max_nodes >= 1 /\ r.max_nodes <= NeighborsMaxNodesLe
      [] r.kind = "triplets" ->
            r.skip >= 0 /\ r.limit >= 1 /\ r.limit <= TripletsLimitLe
      [] OTHER -> TRUE

\* The ge/le constraints the handlers declare on their query parameters
Valid(r) ==
    CASE r.kind = "node_link" ->
            r.min_degree >= 0 /\ r.max_nodes >= 1 /\ r.max_nodes <= NodeLinkMaxNodesLe
      [] r.kind = "neighbors" ->
            /\ r.depth >= 1 /\ r.depth <= MaxDepth
            /\ r.max_nodes >= 1 /\ r.max_nodes <= NeighborsMaxNodesLe
      [] r.kind = "triplets" ->
            r.skip >= 0 /\ r.limit >= 1 /\ r.limit <= TripletsLimitLe
      [] OTHER -> TRUE

\* The parameters are validated against the declarations before the handler
\* function is called; a request that fails is answered without calling it
Validate(p) ==
    /\ pc[p] = "validate"
    /\ IF Valid(req[p])
       THEN /\ pc' = [pc EXCEPT ![p] = IF req[p].kind = "list" THEN "list" ELSE "resolve"]
            /\ UNCHANGED resp
       ELSE /\ resp' = [resp EXCEPT ![p] = Invalid]
            /\ pc' = [pc EXCEPT ![p] = "done"]
    /\ UNCHANGED <<KG_BY_FILE, heap, req, G, H, nodes, frontier, hop>>

\* /kg/file/list
GetFiles(p) ==
    /\ pc[p] = "list"
    /\ resp' = [resp EXCEPT ![p] = Ok(get_files)]
    /\ pc' = [pc EXCEPT ![p] = "done"]
    /\ UNCHANGED <<KG_BY_FILE, heap, req, G, H, nodes, frontier, hop>>

-----------------------------------------------------------------------------
(* Graphs the indexes can hold, and the requests *)

\* Node ids, in the order the index inserts them
NodeOrder == <<"A", "B", "C", "D">>

\* Bounds on the request parameters explored
MaxMinDegree == 2
MaxCap == 5

RECURSIVE SetToSeq(_)
SetToSeq(S) ==
    IF S = {} THEN <<>>
    ELSE LET x == CHOOSE y \in S : TRUE IN <<x>> \o SetToSeq(S \ {x})

\* The graph built by adding the nodes of `order` and then the edges of E
\* (pairs <<u, v>>), with node attributes na and edge attributes ea
MkGraph(order, E, na, ea) ==
    [nodes |-> order,
     nattr |-> [n \in Range(order) |-> Get(na, n, EmptyMap)],
     edges |-> EdgeIter(order,
                        [k \in 1..Cardinality(E) |->
                            [u |-> SetToSeq(E)[k][1], v |-> SetToSeq(E)[k][2],
                             attr |-> Get(ea, SetToSeq(E)[k], EmptyMap)]],
                        1),
     live  |-> TRUE]

Prefix(n) == SubSeq(NodeOrder, 1, n)
PairsOf(order) ==
    {<<order[q[1]], order[q[2]]>> :
        q \in {r \in (DOMAIN order) \X (DOMAIN order) : r[1] < r[2]}}

\* A self-loop the extraction can produce (X related to X)
Loops(order) == {<<"B", "B">>} \cap {<<n, n>> : n \in Range(order)}

\* Every graph on a prefix of NodeOrder, with or without the self-loop
Shapes ==
    UNION {{[order |-> Prefix(n), E |-> E] :
               E \in SUBSET (PairsOf(Prefix(n)) \cup Loops(Prefix(n)))} :
           n \in 0..Len(NodeOrder)}

\* Node attribute maps tried by the filter: none, or one labelled node
NodeLabellings ==
    {EmptyMap, "C" :> ("label" :> "aB"), "A" :> ("label" :> "b")}

FilterGraphs ==
    {MkGraph(s.order, s.E, na, EmptyMap) : s \in Shapes, na \in NodeLabellings}

\* A path of five nodes: the one shape here on which depth 4 reaches further
\* than depth 3
PathGraph ==
    MkGraph(NodeOrder \o <<"E">>,
            {<<"A", "B">>, <<"B", "C">>, <<"C", "D">>, <<"D", "E">>}, EmptyMap, EmptyMap)

\* Spec scenario 1: V={A,B,C,D}, E={(A,B,"cites"),(B,C,"cites"),(C,D)}
ScenarioGraph ==
    MkGraph(NodeOrder, {<<"A", "B">>, <<"B", "C">>, <<"C", "D">>}, EmptyMap,
            (<<"A", "B">> :> ("relation" :> "cites"))
            @@ (<<"B", "C">> :> ("relation" :> "cites")))

EgoGraphs ==
    {MkGraph(s.order, s.E, EmptyMap, EmptyMap) : s \in Shapes}
    \cup {PathGraph, ScenarioGraph}

Queries == {None, "", "a", "B"}
Centers == Range(NodeOrder) \cup {"E", "Z"}

FilterRequests ==
    {[NoReq EXCEPT !.kind = "node_link", !.file = "a.md", !.query = q,
                   !.min_degree = md, !.max_nodes = mx] :
        q \in Queries, md \in 0..MaxMinDegree, mx \in 1..MaxCap}

EgoRequests ==
    {[NoReq EXCEPT !.kind = "neighbors", !.file = "a.md", !.center = c,
                   !.depth = d, !.max_nodes = mx] :
        c \in Centers, d \in 1..MaxDepth, mx \in 1..MaxCap}
    \cup {[NoReq EXCEPT !.kind = "neighbors", !.file = "a.md", !.center = "B",
                        !.depth = 1, !.max_nodes = 10]}

\* Edge attribute maps: none, a relation, the label and title that
\* get_networkx_graph sets, an empty relation beside a label, and attributes
\* named like fields of the responses
EdgeAttrs ==
    {EmptyMap,
     "relation" :> "cites",
     ("label" :> "cd") @@ ("title" :> "cd"),
     ("relation" :> "") @@ ("label" :> "cd"),
     "id" :> "e1",
     "subject" :> "Z"}

NodeAttrs ==
    {EmptyMap, "A" :> ("label" :> "b"), "A" :> ("degree" :> 7)}

\* The graphs handed to the projector and the serializer: on these nodes,
\* with at most MaxProjEdges edges
ProjectNodes == {"A", "B", "C"}
MaxProjEdges == 2
\* Bounds on the pagination parameters explored
MaxSkip == 2
MaxLimit == 2

ProjectGraphs ==
    UNION {{MkGraph(s.order, s.E, na, ea) : ea \in [s.E -> EdgeAttrs], na \in NodeAttrs} :
           s \in {t \in Shapes : Range(t.order) \subseteq ProjectNodes
                                 /\ Cardinality(t.E) <= MaxProjEdges}}
    \cup {ScenarioGraph}

ProjectRequests ==
    {[NoReq EXCEPT !.kind = "triplets", !.file = "a.md", !.skip = sk, !.limit = li] :
        sk \in 0..MaxSkip, li \in 1..MaxLimit}
    \cup {[NoReq EXCEPT !.kind = "node_link", !.file = "a.md", !.min_degree = md,
                        !.max_nodes = MaxCap] : md \in 0..MaxMinDegree}

\* An index as get_networkx_graph shows it: label and title on every edge
LlamaGraph ==
    MkGraph(SubSeq(NodeOrder, 1, 3), {<<"A", "B">>, <<"B", "C">>}, EmptyMap,
            (<<"A", "B">> :> (("label" :> "cd") @@ ("title" :> "cd")))
            @@ (<<"B", "C">> :> (("label" :> "aB") @@ ("title" :> "aB"))))

\* Two components, one labelled node
IslandGraph ==
    MkGraph(NodeOrder, {<<"A", "B">>, <<"A", "C">>}, "D" :> ("label" :> "aB"),
            <<"A", "B">> :> ("relation" :> "cites"))

StoredGraphs == {ScenarioGraph, LlamaGraph, IslandGraph}

Routers == {None, "a.md", "b.md"}

ServedRequests ==
    {[NoReq EXCEPT !.kind = "node_link", !.file = f, !.query = v[1],
                   !.min_degree = v[2], !.max_nodes = v[3]] :
        f \in Routers, v \in {<<None, 2, 4>>, <<"a", 0, 1>>}}
    \cup {[NoReq EXCEPT !.kind = "neighbors", !.file = f, !.center = v[1],
                        !.depth = v[2], !.max_nodes = v[3]] :
        f \in Routers, v \in {<<"B", 1, 4>>, <<"B", 2, 2>>, <<"Z", 1, 4>>}}
    \cup {[NoReq EXCEPT !.kind = "triplets", !.file = f, !.skip = 1, !.limit = 1] :
        f \in Routers}
    \cup {[NoReq EXCEPT !.kind = "stats"]}

\* Requests as clients send them, with parameters inside and outside the
\* declared ranges
RawRequests ==
    {[NoReq EXCEPT !.kind = "node_link", !.file = f, !.min_degree = md, !.max_nodes = mx] :
        f \in Routers, md \in -1..1,
        mx \in {-1, 0, 1, 2, NodeLinkMaxNodesLe, NodeLinkMaxNodesLe + 1}}
    \cup {[NoReq EXCEPT !.kind = "neighbors", !.file = f, !.center = c, !.depth = d,
                        !.max_nodes = mx] :
        f \in Routers, c \in {"B", "Z"}, d \in -1..(MaxDepth + 1),
        mx \in {0, 1, 4, NeighborsMaxNodesLe, NeighborsMaxNodesLe + 1}}
    \cup {[NoReq EXCEPT !.kind = "triplets", !.file = f, !.skip = sk, !.limit = li] :
        f \in Routers, sk \in -1..1,
        li \in {-1, 0, 1, TripletsLimitLe, TripletsLimitLe + 1}}
    \cup {[NoReq EXCEPT !.kind = "stats"]}

\* The state once lifespan() has loaded the indexes: a.md holds graph g, the
\* aggregate index holds graph k, worker 1 has request r in hand
Loaded(g, k) ==
    /\ KG_BY_FILE = [f \in LoadedFiles |-> f]
    /\ heap = [x \in Refs |->
                 IF x = "KG_INDEX" THEN k
                 ELSE IF x \in LoadedFiles THEN g ELSE NoGraph]
    /\ G = [p \in Workers |-> None]
    /\ H = [p \in Workers |-> None]
    /\ nodes = [p \in Workers |-> {}]
    /\ frontier = [p \in Workers |-> {}]
    /\ hop = [p \in Workers |-> 0]
    /\ resp = [p \in Workers |-> NoResp]

Handed(r) ==
    /\ pc = [p \in Workers |-> IF p = 1 THEN "resolve" ELSE "idle"]
    /\ req = [p \in Workers |-> IF p = 1 THEN r ELSE NoReq]

\* _filtered_graph on every graph and filter
InitFilter == \E g \in FilterGraphs, r \in FilterRequests :
                 Loaded(g, ScenarioGraph) /\ Handed(r)
NextFilter ==
    \/ Resolve(1)
    \/ FilterCopy(1)
    \/ FilterDegree(1)
    \/ FilterQuery(1)
    \/ FilterDownsample(1)
    \/ Serialize(1)
SpecFilter == InitFilter /\ [][NextFilter]_vars

\* _ego_subgraph on every graph, center, depth and cap
InitEgo == \E g \in EgoGraphs, r \in EgoRequests :
              Loaded(g, ScenarioGraph) /\ Handed(r)
NextEgo ==
    \/ Resolve(1)
    \/ EgoInit(1)
    \/ EgoHop(1)
    \/ EgoReturn(1)
    \/ Serialize(1)
SpecEgo == InitEgo /\ [][NextEgo]_vars

\* Both graph-returning operations, on every graph and request of theirs
InitQuery == InitFilter \/ InitEgo
NextQuery ==
    \/ Resolve(1)
    \/ FilterCopy(1)
    \/ FilterDegree(1)
    \/ FilterQuery(1)
    \/ FilterDownsample(1)
    \/ EgoInit(1)
    \/ EgoHop(1)
    \/ EgoReturn(1)
    \/ Serialize(1)
SpecQuery == InitQuery /\ [][NextQuery]_vars

\* _filtered_graph as a whole: the graphs it can return for graph g
_filtered_graph(g, q, min_degree, max_nodes) ==
    LET h1 == remove_nodes_from(g, DegreeVictims(g, min_degree))
        h2 == remove_nodes_from(h1, QueryVictims(h1, q))
    IN  IF NeedsDownsample(h2, max_nodes)
        THEN {SubgraphCopy(h2, order) :
                 order \in SubgraphOrders(h2, DownsampleKeep(h2, max_nodes))}
        ELSE {h2}

\* _ego_subgraph's hop loop run to its end: the visited set
RECURSIVE EgoLoop(_, _, _, _, _, _)
EgoLoop(g, visited, front, i, depth, max_nodes) ==
    IF i >= depth THEN visited
    ELSE LET s == EgoStep(g, visited, front)
         IN  IF Cardinality(s.nodes) >= max_nodes THEN s.nodes
             ELSE EgoLoop(g, s.nodes, s.frontier, i + 1, depth, max_nodes)

\* _ego_subgraph as a whole, for a center that is in g: the graphs it can return
_ego_subgraph(g, center, depth, max_nodes) ==
    UNION {{SubgraphCopy(g, order) : order \in SubgraphOrders(g, kept)} :
           kept \in Truncations(EgoLoop(g, {center}, {center}, 0, depth, max_nodes),
                                max_nodes)}

\* The responses a handler can give to request r when it runs alone on the
\* stored graphs
Handler(r) ==
    IF r.file # None /\ r.file \notin DOMAIN KG_BY_FILE THEN {NotFound}
    ELSE LET g == [heap[StoredRef(r)] EXCEPT !.live = TRUE]
         IN  CASE r.kind = "node_link" ->
                    {Ok(_nx_to_node_link(h)) :
                        h \in _filtered_graph(g, r.query, r.min_degree, r.max_nodes)}
               [] r.kind = "neighbors" ->
                    IF ~has_node(g, r.center) THEN {NotFound}
                    ELSE {Ok(_nx_to_node_link(h)) :
                             h \in _ego_subgraph(g, r.center, r.depth, r.max_nodes)}
               [] r.kind = "triplets" -> {Ok(TripletsPage(g, r.skip, r.limit))}
               [] r.kind = "stats" -> {Ok(KGStats(g))}

\* _derive_triplets_from_edges and _nx_to_node_link on attributed graphs
InitProject == \E g \in ProjectGraphs, r \in ProjectRequests :
                  Loaded(g, ScenarioGraph) /\ Handed(r)
NextProject ==
    \/ Resolve(1)
    \/ Triplets(1)
    \/ FilterCopy(1)
    \/ FilterDegree(1)
    \/ FilterQuery(1)
    \/ FilterDownsample(1)
    \/ Serialize(1)
SpecProject == InitProject /\ [][NextProject]_vars

\* The served application: requests arrive at the workers of the thread pool
\* and their handlers run interleaved
Init == \E g \in StoredGraphs, k \in StoredGraphs :
           /\ Loaded(g, k)
           /\ pc = [p \in Workers |-> "idle"]
           /\ req = [p \in Workers |-> NoReq]
Next ==
    \E p \in Workers :
        \/ \E r \in ServedRequests : Arrive(p, r)
        \/ Resolve(p)
        \/ FilterCopy(p)
        \/ FilterDegree(p)
        \/ FilterQuery(p)
        \/ FilterDownsample(p)
        \/ EgoInit(p)
        \/ EgoHop(p)
        \/ EgoReturn(p)
        \/ Serialize(p)
        \/ Triplets(p)
        \/ Stats(p)
        \/ Finish(p)
Spec == Init /\ [][Next]_vars

\* Spec scenario: a component of three nodes, met first, and one of five
FiveThreeGraph ==
    MkGraph(<<"F", "G", "H", "A", "B", "C", "D", "E">>,
            {<<"F", "G">>, <<"G", "H">>,
             <<"A", "B">>, <<"B", "C">>, <<"C", "D">>, <<"D", "E">>},
            EmptyMap, EmptyMap)

\* Components of sizes 2, 2 and 1
TwoTwoOneGraph ==
    MkGraph(NodeOrder \o <<"E">>, {<<"A", "B">>, <<"C", "D">>}, EmptyMap, EmptyMap)

\* Bound on the max_nodes tried on these graphs
MaxKeep == 8

DownsampleGraphs == EgoGraphs \cup {FiveThreeGraph, TwoTwoOneGraph}
DownsampleRequests ==
    {[NoReq EXCEPT !.kind = "node_link", !.file = "a.md", !.query = q,
                   !.min_degree = md, !.max_nodes = mx] :
        q \in {None, "a"}, md \in 0..1, mx \in 1..MaxKeep}

\* The component-bounded downsample on graphs with components of many sizes
InitDownsample == \E g \in DownsampleGraphs, r \in DownsampleRequests :
                     Loaded(g, ScenarioGraph) /\ Handed(r)
NextDownsample ==
    \/ Resolve(1)
    \/ FilterCopy(1)
    \/ FilterDegree(1)
    \/ FilterQuery(1)
    \/ FilterDownsample(1)
    \/ Serialize(1)
SpecDownsample == InitDownsample /\ [][NextDownsample]_vars

\* stats on every graph the aggregate index can hold
StatsGraphs == EgoGraphs \cup StoredGraphs
InitStats == \E k \in StatsGraphs :
                Loaded(IslandGraph, k) /\ Handed([NoReq EXCEPT !.kind = "stats"])
NextStats ==
    \/ Resolve(1)
    \/ Stats(1)
SpecStats == InitStats /\ [][NextStats]_vars

\* Graphs the indexes built at startup can hold
StartupGraphs == {LlamaGraph, IslandGraph}

\* lifespan: one iteration of the loop over sorted(SUMMARY_DIR.glob("*.md")),
\* which builds or loads the file's index and enters it in the registry
LoadFile ==
    /\ pc[Lifespan] = "load"
    /\ \E f \in LoadedFiles \ DOMAIN KG_BY_FILE :
         /\ \A h \in LoadedFiles \ DOMAIN KG_BY_FILE :
                Pos(FileOrder, f) <= Pos(FileOrder, h)
         /\ \E g \in StartupGraphs :
                /\ KG_BY_FILE' = KG_BY_FILE @@ (f :> f)
                /\ heap' = [heap EXCEPT ![f] = g]
    /\ UNCHANGED <<pc, req, G, H, nodes, frontier, hop, resp>>

\* lifespan: app.include_router(create_kg_file_router(...)), after the loop
MountFileRouter ==
    /\ pc[Lifespan] = "load"
    /\ LoadedFiles \subseteq DOMAIN KG_BY_FILE
    /\ pc' = [pc EXCEPT ![Lifespan] = "build_kg"]
    /\ UNCHANGED <<KG_BY_FILE, heap, req, G, H, nodes, frontier, hop, resp>>

\* lifespan: KG_INDEX = build_or_load_kg_index_from_markdown(...)
BuildKGIndex ==
    /\ pc[Lifespan] = "build_kg"
    /\ \E k \in StartupGraphs : heap' = [heap EXCEPT !["KG_INDEX"] = k]
    /\ pc' = [pc EXCEPT ![Lifespan] = "mount_kg"]
    /\ UNCHANGED <<KG_BY_FILE, req, G, H, nodes, frontier, hop, resp>>

\* lifespan: app.include_router(kg_router)
MountKGRouter ==
    /\ pc[Lifespan] = "mount_kg"
    /\ pc' = [pc EXCEPT ![Lifespan] = "serving"]
    /\ UNCHANGED <<KG_BY_FILE, heap, req, G, H, nodes, frontier, hop, resp>>

\* Variant of FileRouterMounted: the router is included when the module is
\* imported
FileRouterMountedAtImport == TRUE

\* The routes of the per-file router exist once it has been included
FileRouterMounted == pc[Lifespan] \in {"build_kg", "mount_kg", "serving"}
\* The routes of the aggregate router exist once it has been included
KGRouterMounted == pc[Lifespan] = "serving"

\* The route of request r exists
Mounted(r) ==
    IF r.kind = "list" \/ r.file # None THEN FileRouterMounted ELSE KGRouterMounted

\* A request for a mounted route reaches an idle worker
Request(p, r) ==
    /\ Mounted(r)
    /\ pc[p] = "idle"
    /\ req' = [req EXCEPT ![p] = r]
    /\ pc' = [pc EXCEPT ![p] = "validate"]
    /\ UNCHANGED <<KG_BY_FILE, heap, G, H, nodes, frontier, hop, resp>>

\* Requests sent while and after the application starts
StartupRequests ==
    {[NoReq EXCEPT !.kind = "list"], [NoReq EXCEPT !.kind = "stats"]}
    \cup {[NoReq EXCEPT !.kind = "node_link", !.file = f, !.query = "a", !.max_nodes = 1] :
             f \in {None} \cup Files}
    \cup {[NoReq EXCEPT !.kind = "neighbors", !.file = "a.md", !.center = "B",
                        !.depth = d, !.max_nodes = 4] : d \in 0..1}
    \cup {[NoReq EXCEPT !.kind = "triplets", !.file = "c.md", !.skip = 1]}

\* The application from the start of lifespan(): the registry is filled, the
\* routers are included, and requests are served
InitStartup ==
    /\ KG_BY_FILE = EmptyMap
    /\ heap = [x \in Refs |-> NoGraph]
    /\ pc = (Lifespan :> "load") @@ [p \in Workers |-> "idle"]
    /\ req = [p \in Workers |-> NoReq]
    /\ G = [p \in Workers |-> None]
    /\ H = [p \in Workers |-> None]
    /\ nodes = [p \in Workers |-> {}]
    /\ frontier = [p \in Workers |-> {}]
    /\ hop = [p \in Workers |-> 0]
    /\ resp = [p \in Workers |-> NoResp]
NextStartup ==
    \/ LoadFile
    \/ MountFileRouter
    \/ BuildKGIndex
    \/ MountKGRouter
    \/ \E p \in Workers :
        \/ \E r \in StartupRequests : Request(p, r)
        \/ Validate(p)
        \/ GetFiles(p)
        \/ Resolve(p)
        \/ FilterCopy(p)
        \/ FilterDegree(p)
        \/ FilterQuery(p)
        \/ FilterDownsample(p)
        \/ EgoInit(p)
        \/ EgoHop(p)
        \/ EgoReturn(p)
        \/ Serialize(p)
        \/ Triplets(p)
        \/ Stats(p)
        \/ Finish(p)
SpecStartup == InitStartup /\ [][NextStartup]_vars

\* Every handler on requests that have yet to pass the parameter validation
InitValidate == \E r \in RawRequests :
                   /\ Loaded(IslandGraph, ScenarioGraph)
                   /\ pc = [p \in Workers |-> IF p = 1 THEN "validate" ELSE "idle"]
                   /\ req = [p \in Workers |-> IF p = 1 THEN r ELSE NoReq]
NextValidate ==
    \/ Validate(1)
    \/ Resolve(1)
    \/ FilterCopy(1)
    \/ FilterDegree(1)
    \/ FilterQuery(1)
    \/ FilterDownsample(1)
    \/ EgoInit(1)
    \/ EgoHop(1)
    \/ EgoReturn(1)
    \/ Serialize(1)
    \/ Triplets(1)
    \/ Stats(1)
SpecValidate == InitValidate /\ [][NextValidate]_vars

-----------------------------------------------------------------------------
(* Graph notions the properties are stated with *)

\* a and b are the endpoints of an edge of g
Adjacent(g, a, b) ==
    \E i \in DOMAIN g.edges :
        \/ g.edges[i].u = a /\ g.edges[i].v = b
        \/ g.edges[i].u = b /\ g.edges[i].v = a

\* Reflexive-transitive closure of a relation R on a node set
RECURSIVE Closure(_, _)
Closure(N, R) ==
    LET R2 == {q \in N \X N :
                 q \in R \/ \E m \in N : <<q[1], m>> \in R /\ <<m, q[2]>> \in R}
    IN  IF R2 = R THEN R ELSE Closure(N, R2)

\* Pairs of nodes of g joined by a path
Connected(g) ==
    Closure(NodeSet(g),
            {q \in NodeSet(g) \X NodeSet(g) : q[1] = q[2] \/ Adjacent(g, q[1], q[2])})

\* S is a union of whole connected components of g
WholeComponents(g, S) ==
    /\ S \subseteq NodeSet(g)
    /\ \A q \in Connected(g) : q[1] \in S => q[2] \in S

\* Nodes of g at distance <= d from c
RECURSIVE Ball(_, _, _)
Ball(g, c, d) ==
    IF d = 0 THEN {c}
    ELSE LET B == Ball(g, c, d - 1)
         IN  B \cup {n \in NodeSet(g) : \E m \in B : Adjacent(g, m, n)}

\* The hop at which n, within d hops of c, is discovered
HopOf(g, c, n, d) == CHOOSE k \in 0..d : n \in Ball(g, c, k) /\ \A j \in 0..(k - 1) : n \notin Ball(g, c, j)

EdgeSet(g) == Range(g.edges)

\* Worker p has run _filtered_graph to its return
Filtered(p) ==
    req[p].kind = "node_link" /\ pc[p] \in {"serialize", "done"} /\ H[p] # None

\* Worker p has run _ego_subgraph to its return
Expanded(p) ==
    req[p].kind = "neighbors" /\ pc[p] \in {"serialize", "done"} /\ H[p] # None

-----------------------------------------------------------------------------
(* Properties *)

\* C1: the node set _filtered_graph returns is a union of whole connected
\* components of the graph that reached the downsample step (the H object
\* the degree and substring filters worked on), and it has at most
\* max_nodes nodes.
C1_ComponentIntegrity ==
    \A p \in Workers :
        Filtered(p) =>
            /\ WholeComponents(heap[HSlot(p)], NodeSet(heap[H[p]]))
            /\ number_of_nodes(heap[H[p]]) <= req[p].max_nodes

\* The downsample dropped one component and kept another
C1_Witness ==
    /\ Filtered(1)
    /\ H[1] = SSlot(1)
    /\ number_of_nodes(heap[H[1]]) >= 2
    /\ number_of_nodes(heap[H[1]]) < number_of_nodes(heap[HSlot(1)])

\* C2: when the nodes within depth hops of the center are at most max_nodes,
\* _ego_subgraph returns exactly those nodes, the center included.
C2_EgoCorrectness ==
    \A p \in Workers :
        Expanded(p) =>
            LET B == Ball(heap[G[p]], req[p].center, req[p].depth)
            IN  Cardinality(B) <= req[p].max_nodes =>
                    /\ NodeSet(heap[H[p]]) = B
                    /\ req[p].center \in NodeSet(heap[H[p]])

\* A two-hop expansion below the cap that leaves part of the graph out
C2_Witness ==
    /\ Expanded(1)
    /\ req[1].depth = 2
    /\ Cardinality(Ball(heap[G[1]], req[1].center, 2)) = 3
    /\ Cardinality(Ball(heap[G[1]], req[1].center, 1)) = 2
    /\ req[1].max_nodes = 4
    /\ number_of_nodes(heap[G[1]]) = 4
    /\ number_of_nodes(heap[H[1]]) = 3

\* C3: when the visited set reaches max_nodes, _ego_subgraph returns exactly
\* max_nodes nodes and they are a prefix of the discovery order: the center,
\* then each hop's additions, so no returned node was discovered at a later
\* hop than a visited node that was left out.
C3_EgoTruncation ==
    \A p \in Workers :
        (Expanded(p) /\ Cardinality(nodes[p]) >= req[p].max_nodes) =>
            LET g   == heap[G[p]]
                out == NodeSet(heap[H[p]])
                c   == req[p].center
            IN  /\ Cardinality(out) = req[p].max_nodes
                /\ c \in out
                /\ \A n \in out : \A m \in nodes[p] \ out :
                       HopOf(g, c, n, req[p].depth) <= HopOf(g, c, m, req[p].depth)

\* C4: with no query, min_degree 0 and max_nodes >= |V(G)|, _filtered_graph
\* returns a graph with exactly the nodes and the edges of G.
C4_NoOpFilter ==
    \A p \in Workers :
        (/\ Filtered(p)
         /\ req[p].query \in {None, ""}
         /\ req[p].min_degree = 0
         /\ req[p].max_nodes >= number_of_nodes(heap[G[p]])) =>
            /\ NodeSet(heap[H[p]]) = NodeSet(heap[G[p]])
            /\ EdgeSet(heap[H[p]]) = EdgeSet(heap[G[p]])
            /\ heap[H[p]].nattr = heap[G[p]].nattr

\* A no-op filter has returned a graph with an isolated node and an edge
C4_Witness ==
    /\ Filtered(1)
    /\ req[1].query = ""
    /\ req[1].min_degree = 0
    /\ req[1].max_nodes = number_of_nodes(heap[G[1]])
    /\ number_of_edges(heap[H[1]]) >= 1
    /\ \E n \in NodeSet(heap[H[1]]) : degree(heap[H[1]], n) = 0

\* C5: after the degree-filter step the nodes left are exactly those whose
\* degree in the graph the step received is >= min_degree (degrees are not
\* read again after removals), and the edges left are exactly those between
\* two such nodes.
C5_DegreeInvariant ==
    \A p \in Workers :
        pc[p] = "filter_query" =>
            LET pre  == heap[G[p]]
                post == heap[H[p]]
                kept == {n \in NodeSet(pre) : degree(pre, n) >= req[p].min_degree}
            IN  /\ NodeSet(post) = kept
                /\ EdgeSet(post) = {e \in EdgeSet(pre) : e.u \in kept /\ e.v \in kept}

\* The degree filter kept nodes that its own removals left below min_degree
C5_Witness ==
    /\ pc[1] = "filter_query"
    /\ req[1].min_degree = 2
    /\ number_of_nodes(heap[H[1]]) = 2
    /\ number_of_nodes(heap[G[1]]) = 4
    /\ \A n \in NodeSet(heap[H[1]]) : degree(heap[H[1]], n) = 1



\* The relation attributes a row's relation can be taken to match: the edge's
\* relation attribute or, failing that, its label attribute
RelationsOf(e) == {Get(e.attr, "relation", None), Get(e.attr, "label", None)}

\* C6: _derive_triplets_from_edges returns |E(G)| rows, and for every row
\* an edge between the row's subject and the row's object exists in G whose
\* relation matches the row's relation.
C6_TripletRoundTrip ==
    \A p \in Workers :
        (req[p].kind = "triplets" /\ pc[p] = "done" /\ resp[p].status = 200) =>
            LET g == heap[G[p]]
                b == resp[p].body
            IN  /\ b.count = number_of_edges(g)
                /\ (req[p].skip = 0 /\ req[p].limit >= b.count) => Len(b.items) = b.count
                /\ \A k \in DOMAIN b.items :
                       \E e \in EdgeSet(g) :
                           /\ {e.u, e.v} = {b.items[k]["subject"], b.items[k]["object"]}
                           /\ b.items[k]["relation"] \in RelationsOf(e)

\* Worker p has a node-link response
Serialized(p) ==
    /\ req[p].kind \in {"node_link", "neighbors"}
    /\ pc[p] = "done"
    /\ resp[p].status = 200

\* C7, as stated: |V(G)| node entries, |E(G)| edge entries, and the edge ids
\* are pairwise distinct and equal to e0, e1, e2, ... in edge-iteration order.
C7_SerializerTotals_AsStated ==
    \A p \in Workers :
        Serialized(p) =>
            LET g == heap[H[p]]
                b == resp[p].body
            IN  /\ Len(b.nodes) = number_of_nodes(g)
                /\ Len(b.edges) = number_of_edges(g)
                /\ \A i \in DOMAIN b.edges : b.edges[i]["id"] = EdgeIdStr(i - 1)
                /\ \A i, j \in DOMAIN b.edges :
                       b.edges[i]["id"] = b.edges[j]["id"] => i = j

\* C7, amended: |V(G)| node entries and |E(G)| edge entries; an edge that
\* has no id attribute of its own gets the id e<i>, i its index in
\* edge-iteration order, and an edge that has one keeps it; when no edge has
\* an id attribute the ids are pairwise distinct.
C7_SerializerTotals ==
    \A p \in Workers :
        Serialized(p) =>
            LET g == heap[H[p]]
                b == resp[p].body
            IN  /\ Len(b.nodes) = number_of_nodes(g)
                /\ Len(b.edges) = number_of_edges(g)
                /\ \A i \in DOMAIN b.edges :
                       b.edges[i]["id"] = Get(g.edges[i].attr, "id", EdgeIdStr(i - 1))
                /\ (\A i \in DOMAIN g.edges : "id" \notin DOMAIN g.edges[i].attr) =>
                       \A i, j \in DOMAIN b.edges :
                           b.edges[i]["id"] = b.edges[j]["id"] => i = j

\* A graph with two edges, neither with an id of its own, has been serialized
C7_Witness ==
    /\ Serialized(1)
    /\ number_of_edges(heap[H[1]]) = 2
    /\ number_of_nodes(heap[H[1]]) = 3
    /\ \A i \in DOMAIN heap[H[1]].edges : "id" \notin DOMAIN heap[H[1]].edges[i].attr
    /\ resp[1].body.edges[2]["id"] = "e1"

\* C8: no step of any request changes a stored graph, and between the moment
\* a handler is given its graph G and its return no step changes G:
\* _filtered_graph removes nodes from its own copy only, _ego_subgraph and
\* the serializer only read.
C8_NoMutation ==
    [][/\ \A r \in StoredRefs : heap'[r] = heap[r]
       /\ KG_BY_FILE' = KG_BY_FILE
       /\ \A p \in Workers :
              (G[p] # None /\ pc[p] # "done") => heap'[G[p]] = heap[G[p]]]_vars

\* A filter has removed nodes from its copy while the stored graph has them
C8_Witness ==
    \E p \in Workers :
        /\ req[p].kind = "node_link"
        /\ pc[p] = "done"
        /\ resp[p].status = 200
        /\ number_of_nodes(heap[H[p]]) < number_of_nodes(heap[StoredRef(req[p])])
        /\ number_of_nodes(heap[G[p]]) = number_of_nodes(heap[StoredRef(req[p])])

\* C9: under any interleaving, a finished request has a response it can
\* give when run alone, and the graph a request holds is the stored graph
\* as a whole, never one another request has partly filtered.
C9_ConcurrentRequestsSafe ==
    \A p \in Workers :
        /\ pc[p] = "done" => resp[p] \in Handler(req[p])
        /\ (G[p] # None /\ pc[p] # "done") =>
               heap[G[p]] = heap[StoredRef(req[p])]

\* Two requests on the same key are in flight, one of them half-way through
\* its filter with nodes removed
C9_Witness ==
    /\ req[1].file = "a.md" /\ req[2].file = "a.md"
    /\ pc[1] = "filter_query"
    /\ number_of_nodes(heap[H[1]]) < number_of_nodes(heap[G[1]])
    /\ pc[2] = "ego_return"
    /\ Cardinality(nodes[2]) > req[2].max_nodes

\* C10: a per-file request for a file with no loaded index ends with the
\* not-found error right after the lookup: no graph is resolved, no filter or
\* traversal runs, and the registry gets no entry and no graph for the file.
C10_UnknownKeyNotFound ==
    /\ DOMAIN KG_BY_FILE = LoadedFiles
    /\ \A f \in Files \ LoadedFiles : heap[f] = NoGraph
    /\ \A p \in Workers :
           (req[p].file \in Files \ LoadedFiles /\ pc[p] \notin {"idle", "resolve"}) =>
               /\ pc[p] = "done"
               /\ resp[p].status = 404
               /\ G[p] = None /\ H[p] = None
               /\ nodes[p] = {} /\ frontier[p] = {}

\* Two per-file operations have been refused for the unknown file
C10_Witness ==
    /\ req[1].file = "b.md" /\ req[1].kind = "node_link"
    /\ req[2].file = "b.md" /\ req[2].kind = "triplets"
    /\ pc[1] = "done" /\ pc[2] = "done"
    /\ resp[1] = NotFound /\ resp[2] = NotFound

\* C11: _ego_subgraph with a center that is not a node of G ends with the
\* not-found error whatever depth and max_nodes are: the visited set and the
\* frontier are never filled, no hop runs, and no graph (empty, single-node
\* or other) is built or returned.
C11_CenterNotFound ==
    \A p \in Workers :
        (/\ req[p].kind = "neighbors"
         /\ G[p] # None
         /\ ~has_node(heap[G[p]], req[p].center)
         /\ pc[p] # "ego_init") =>
            /\ pc[p] = "done"
            /\ resp[p] = NotFound
            /\ nodes[p] = {} /\ frontier[p] = {} /\ hop[p] = 0
            /\ H[p] = None
            /\ heap[SSlot(p)] = NoGraph

\* The deepest expansion with the smallest cap has been refused on a graph
\* with edges, for a center the graph does not have
C11_Witness ==
    /\ req[1].kind = "neighbors"
    /\ req[1].center = "Z"
    /\ req[1].depth = MaxDepth /\ req[1].max_nodes = 1
    /\ G[1] # None
    /\ number_of_edges(heap[G[1]]) >= 2
    /\ pc[1] = "done"
    /\ resp[1] = NotFound

\* A parameter of request r is outside its documented range
OutOfBounds(r) ==
    \/ r.kind = "neighbors" /\ (r.depth < 1 \/ r.depth > 4)
    \/ r.kind = "node_link" /\ r.min_degree < 0
    \/ r.kind \in {"node_link", "neighbors"} /\ r.max_nodes < 1
    \/ r.kind = "triplets" /\ (r.skip < 0 \/ r.limit < 1)

\* C12: a request with depth outside [1,4], a negative min_degree,
\* max_nodes < 1, a negative skip or limit < 1 is answered as invalid
\* before anything else happens: no graph is resolved (not even looked up
\* for an unknown file), no filter step and no hop runs, nothing is built.
C12_InvalidRejectedFirst ==
    \A p \in Workers :
        (OutOfBounds(req[p]) /\ pc[p] # "validate") =>
            /\ pc[p] = "done"
            /\ resp[p] = Invalid
            /\ G[p] = None /\ H[p] = None
            /\ nodes[p] = {} /\ frontier[p] = {} /\ hop[p] = 0
            /\ heap[GSlot(p)] = NoGraph /\ heap[HSlot(p)] = NoGraph
            /\ heap[SSlot(p)] = NoGraph

\* An expansion with depth 5 on a center the graph has was rejected
C12_Witness ==
    /\ req[1].kind = "neighbors"
    /\ req[1].file = "a.md"
    /\ req[1].center = "B"
    /\ req[1].depth = 5 /\ req[1].max_nodes = 4
    /\ pc[1] = "done"
    /\ resp[1] = Invalid

\* C13: the items of a triplets response are the elements skip .. skip+limit-1
\* (0-based) of the full triplet sequence of the graph, as many of them as the
\* sequence has (possibly none), the request never fails, and count is the
\* length of the full sequence whatever skip and limit are.
C13_PaginationIsSlice ==
    \A p \in Workers :
        (req[p].kind = "triplets" /\ pc[p] = "done" /\ G[p] # None) =>
            LET full == _derive_triplets_from_edges(heap[G[p]])
                sk   == req[p].skip
                li   == req[p].limit
                n    == IF Len(full) - sk <= 0 THEN 0 ELSE Min(li, Len(full) - sk)
            IN  /\ resp[p].status = 200
                /\ resp[p].body.count = Len(full)
                /\ resp[p].body.count = number_of_edges(heap[G[p]])
                /\ Len(resp[p].body.items) = n
                /\ \A k \in 1..n : resp[p].body.items[k] = full[sk + k]

\* A page that starts inside the sequence and is cut short by its end
C13_Witness ==
    /\ req[1].kind = "triplets"
    /\ pc[1] = "done"
    /\ resp[1].status = 200
    /\ req[1].skip = 1 /\ req[1].limit = 2
    /\ resp[1].body.count = 2
    /\ Len(resp[1].body.items) = 1
    /\ resp[1].body.items[1]["subject"] # resp[1].body.items[1]["object"]

\* The connected components of g: the classes of its nodes under `joined by
\* a path`
Components(g) == {{q[2] : q \in {r \in Connected(g) : r[1] = n}} : n \in NodeSet(g)}

\* C14: stats reports the node count, the edge count and the number of
\* connected components of the whole stored graph; 4, 3 and 1 for
\* V={A,B,C,D}, E={(A,B),(B,C),(C,D)}; 0 edges and one component per node
\* for a graph with no edges.
C14_Stats ==
    \A p \in Workers :
        (req[p].kind = "stats" /\ pc[p] = "done") =>
            LET g == heap["KG_INDEX"]
                b == resp[p].body
            IN  /\ resp[p].status = 200
                /\ b.nodes = Cardinality(NodeSet(g))
                /\ b.edges = Cardinality({{e.u, e.v} : e \in EdgeSet(g)})
                /\ b.connected_components = Cardinality(Components(g))
                /\ g = ScenarioGraph =>
                       b = [nodes |-> 4, edges |-> 3, connected_components |-> 1]
                /\ EdgeSet(g) = {} =>
                       b.edges = 0 /\ b.connected_components = Cardinality(NodeSet(g))

\* stats has answered for the scenario graph
C14_Witness ==
    /\ req[1].kind = "stats"
    /\ pc[1] = "done"
    /\ heap["KG_INDEX"] = ScenarioGraph
    /\ resp[1] = Ok([nodes |-> 4, edges |-> 3, connected_components |-> 1])

\* The position in g's node order of the first node of component c: the
\* components are discovered in this order
FirstPos(g, c) ==
    CHOOSE i \in DOMAIN g.nodes :
        g.nodes[i] \in c /\ \A j \in 1..(i - 1) : g.nodes[j] \notin c

\* Component c stands before component d in the list sorted by size
\* descending, ties in discovery order
Before(g, c, d) ==
    \/ Cardinality(c) > Cardinality(d)
    \/ Cardinality(c) = Cardinality(d) /\ FirstPos(g, c) < FirstPos(g, d)

\* The nodes of the first k components of that list
PrefixNodes(g, k) ==
    UNION {c \in Components(g) :
              Cardinality({d \in Components(g) : Before(g, d, c)}) < k}

\* The nodes of the longest prefix of that list with at most max_nodes nodes
LongestPrefix(g, max_nodes) ==
    LET fits == {k \in 0..Cardinality(Components(g)) :
                    Cardinality(PrefixNodes(g, k)) <= max_nodes}
    IN  PrefixNodes(g, CHOOSE k \in fits : \A j \in fits : j <= k)

\* C15: when the graph left by the degree and substring filters has more
\* than max_nodes nodes, the nodes _filtered_graph returns are those of the
\* longest prefix of its components, sorted by size descending with ties in
\* discovery order, whose total size is at most max_nodes; with components
\* of sizes 5 and 3 and max_nodes = 6 they are the 5-node component.
C15_GreedyDownsample ==
    \A p \in Workers :
        (Filtered(p) /\ number_of_nodes(heap[HSlot(p)]) > req[p].max_nodes) =>
            /\ NodeSet(heap[H[p]]) = LongestPrefix(heap[HSlot(p)], req[p].max_nodes)
            /\ (heap[HSlot(p)] = FiveThreeGraph /\ req[p].max_nodes = 6) =>
                   NodeSet(heap[H[p]]) = {"A", "B", "C", "D", "E"}

\* The scenario: sizes 5 and 3, max_nodes = 6, five nodes returned
C15_Witness ==
    /\ Filtered(1)
    /\ heap[HSlot(1)] = FiveThreeGraph
    /\ req[1].max_nodes = 6
    /\ H[1] = SSlot(1)
    /\ number_of_nodes(heap[H[1]]) = 5

\* C16: the registry is filled during startup only, one new key at a time
\* and before any request is handled; a request is handled only when every
\* file of the summary directory has its index in the registry (and, on the
\* aggregate router, when the aggregate index is built); from then on no
\* step adds, removes or replaces a registry entry or a stored graph.
C16_RegistryReadOnly ==
    [][/\ (KG_BY_FILE' # KG_BY_FILE \/ \E f \in Files : heap'[f] # heap[f]) =>
           /\ pc[Lifespan] = "load"
           /\ \A p \in Workers : pc[p] = "idle" /\ pc'[p] = "idle"
           /\ \E f \in LoadedFiles \ DOMAIN KG_BY_FILE :
                  /\ DOMAIN KG_BY_FILE' = DOMAIN KG_BY_FILE \cup {f}
                  /\ \A h \in DOMAIN KG_BY_FILE :
                         KG_BY_FILE'[h] = KG_BY_FILE[h] /\ heap'[h] = heap[h]
       /\ \A p \in Workers :
              pc'[p] # "idle" =>
                  /\ DOMAIN KG_BY_FILE' = LoadedFiles
                  /\ KG_BY_FILE' = KG_BY_FILE
                  /\ \A f \in LoadedFiles : heap'[f].live
                  /\ (req'[p].file = None /\ req'[p].kind # "list") =>
                         heap'["KG_INDEX"].live /\ heap'["KG_INDEX"] = heap["KG_INDEX"]
      ]_vars

\* After startup one request on the last file loaded has been answered
\* while another, on the aggregate index, is in its filter
C16_Witness ==
    /\ pc[Lifespan] = "serving"
    /\ req[1].file = "c.md" /\ pc[1] = "done" /\ resp[1].status = 200
    /\ req[2].file = None /\ pc[2] = "filter_query"

\* Pairs of file names in ascending order
KeyAscending == {<<"a.md", "b.md">>, <<"a.md", "c.md">>, <<"b.md", "c.md">>}

C18_NoDanglingEdges ==
    \A p \in Workers :
        /\ (Filtered(p) \/ Expanded(p)) =>
               LET g == heap[G[p]]
                   h == heap[H[p]]
               IN  /\ \A e \in EdgeSet(h) : e.u \in NodeSet(h) /\ e.v \in NodeSet(h)
                   /\ NodeSet(h) \subseteq NodeSet(g)
                   /\ \A n \in NodeSet(h) : h.nattr[n] = g.nattr[n]
                   /\ \A e \in EdgeSet(h) :
                          \E d \in EdgeSet(g) :
                              {d.u, d.v} = {e.u, e.v} /\ d.attr = e.attr
        /\ Serialized(p) =>
               LET b   == resp[p].body
                   ids == {b.nodes[i]["id"] : i \in DOMAIN b.nodes}
               IN  /\ ids \subseteq NodeSet(heap[G[p]])
                   /\ \A i \in DOMAIN b.edges :
                          /\ b.edges[i]["source"] \in ids
                          /\ b.edges[i]["target"] \in ids
                          /\ Adjacent(heap[G[p]], b.edges[i]["source"], b.edges[i]["target"])

\* A response has been built from a result that keeps an edge of a node and
\* has lost another edge of that node with the edge's other endpoint
C18_Witness ==
    /\ Serialized(1)
    /\ Len(resp[1].body.edges) >= 1
    /\ \E n \in NodeSet(heap[H[1]]) :
           /\ degree(heap[H[1]], n) >= 1
           /\ degree(heap[H[1]], n) < degree(heap[G[1]], n)

\* The character sequence q occurs in the character sequence s
Occurs(q, s) ==
    \E k \in 0..(Len(s) - Len(q)) : \A i \in 1..Len(q) : s[k + i] = q[i]

\* Node n of g matches the query q: q, lower-cased, occurs in the lower-cased
\* id of n or in its lower-cased label, an absent label being the empty string
Matches(q, g, n) ==
    \/ Occurs(lower(q), lower(n))
    \/ Occurs(lower(q), lower(IF "label" \in DOMAIN g.nattr[n] THEN g.nattr[n]["label"] ELSE ""))

\* C19: _filtered_graph's result is the degree filter, then the substring
\* filter, then the downsample, each on what the previous step left: the
\* graph that reaches the downsample has the nodes of the input with degree
\* >= min_degree there that also match the query, and the edges between
\* them; the comparison with max_nodes and the components are those of that
\* graph, not of the input.
C19_StepOrder ==
    \A p \in Workers :
        Filtered(p) =>
            LET g   == heap[G[p]]
                mid == heap[HSlot(p)]
                q   == req[p].query
                D   == {n \in NodeSet(g) : degree(g, n) >= req[p].min_degree}
                Q   == IF q \in {None, ""} THEN D ELSE {n \in D : Matches(q, g, n)}
            IN  /\ NodeSet(mid) = Q
                /\ EdgeSet(mid) = {e \in EdgeSet(g) : e.u \in Q /\ e.v \in Q}
                /\ Cardinality(Q) <= req[p].max_nodes =>
                       H[p] = HSlot(p)
                /\ Cardinality(Q) > req[p].max_nodes =>
                       NodeSet(heap[H[p]]) = LongestPrefix(mid, req[p].max_nodes)

\* All three steps have removed nodes: four nodes came in, three passed the
\* degree filter, two of them matched, one was kept
C19_Witness ==
    /\ Filtered(1)
    /\ number_of_nodes(heap[G[1]]) = 4
    /\ Cardinality({n \in NodeSet(heap[G[1]]) :
                       degree(heap[G[1]], n) >= req[1].min_degree}) = 3
    /\ number_of_nodes(heap[HSlot(1)]) = 2
    /\ H[1] = SSlot(1)
    /\ number_of_nodes(heap[H[1]]) = 1

C21_FrontierIsNew ==
    [][\A p \in Workers :
          (pc[p] = "ego_hop" /\ hop'[p] = hop[p] + 1) =>
              frontier'[p] = nodes'[p] \ nodes[p]]_vars

\* C22: the hop loop ends after the first hop that leaves max_nodes or more
\* visited nodes, or after depth hops: while it goes on, fewer than
\* max_nodes nodes were visited after every hop run so far; never more than
\* depth hops run; the returned graph has at most max_nodes nodes.
C22_EarlyStop ==
    \A p \in Workers :
        (req[p].kind = "neighbors" /\ pc[p] \in {"ego_hop", "ego_return", "serialize", "done"}
         /\ G[p] # None /\ has_node(heap[G[p]], req[p].center)) =>
            LET g == heap[G[p]]
                c == req[p].center
            IN  /\ hop[p] <= req[p].depth
                /\ nodes[p] = Ball(g, c, hop[p])
                /\ \A j \in 1..(hop[p] - 1) :
                       Cardinality(Ball(g, c, j)) < req[p].max_nodes
                /\ (pc[p] = "ego_hop" /\ hop[p] >= 1) =>
                       Cardinality(nodes[p]) < req[p].max_nodes /\ hop[p] < req[p].depth
                /\ pc[p] # "ego_hop" =>
                       \/ Cardinality(nodes[p]) >= req[p].max_nodes
                       \/ hop[p] = req[p].depth
                /\ Expanded(p) => number_of_nodes(heap[H[p]]) <= req[p].max_nodes

\* The loop was left after two of four hops, with more visited nodes than the
\* cap lets through
C22_Witness ==
    /\ Expanded(1)
    /\ req[1].depth = 4
    /\ hop[1] = 2
    /\ req[1].max_nodes = 3
    /\ Cardinality(nodes[1]) = 4
    /\ number_of_nodes(heap[H[1]]) = 3

\* C28: the graph _ego_subgraph returns contains the center, and every node
\* of it is within depth hops of the center, truncated or not.
C28_CenterKept ==
    \A p \in Workers :
        Expanded(p) =>
            /\ req[p].center \in NodeSet(heap[H[p]])
            /\ NodeSet(heap[H[p]]) \subseteq Ball(heap[G[p]], req[p].center, req[p].depth)

\* C23: the graph _ego_subgraph returns has exactly the edges of G whose two
\* endpoints are both among its nodes, with their attributes, whether or not
\* the traversal went along them; on V={A,B,C,D}, E={(A,B),(B,C),(C,D)},
\* center B, depth 1, max_nodes 10 it has the nodes A, B, C and the edges
\* (A,B), (B,C).
C23_InducedSubgraph ==
    \A p \in Workers :
        Expanded(p) =>
            LET g == heap[G[p]]
                h == heap[H[p]]
                pairs(x) == {<<{e.u, e.v}, e.attr>> : e \in EdgeSet(x)}
            IN  /\ pairs(h) = {q \in pairs(g) : q[1] \subseteq NodeSet(h)}
                /\ number_of_edges(h) = Cardinality(pairs(h))
                /\ (/\ g = ScenarioGraph /\ req[p].center = "B"
                    /\ req[p].depth = 1 /\ req[p].max_nodes = 10) =>
                       /\ NodeSet(h) = {"A", "B", "C"}
                       /\ {q[1] : q \in pairs(h)} = {{"A", "B"}, {"B", "C"}}

\* A one-hop expansion has returned the edge between two neighbours of the
\* center, and left a fourth node out
C23_Witness ==
    /\ Expanded(1)
    /\ req[1].center = "A" /\ req[1].depth = 1
    /\ number_of_nodes(heap[G[1]]) = 4
    /\ NodeSet(heap[H[1]]) = {"A", "B", "C"}
    /\ Adjacent(heap[H[1]], "B", "C")
    /\ number_of_edges(heap[H[1]]) = 3

\* C24: for every edge, the row's relation is the edge's relation attribute
\* whenever the edge has one, whatever its value, the edge's label attribute
\* only when it has no relation, and None when it has neither; every other
\* edge attribute is in the row with its value, and the edge's relation and
\* label are passed through under no other key.
C24_TripletRelation ==
    \A p \in Workers :
        (req[p].kind = "triplets" /\ pc[p] = "done" /\ resp[p].status = 200) =>
            LET g == heap[G[p]]
                b == resp[p].body
            IN  \A k \in DOMAIN b.items :
                    LET d   == g.edges[req[p].skip + k].attr
                        row == b.items[k]
                    IN  /\ row["relation"] =
                               IF "relation" \in DOMAIN d THEN d["relation"]
                               ELSE IF "label" \in DOMAIN d THEN d["label"]
                               ELSE None
                        /\ \A a \in DOMAIN d \ {"relation", "label"} :
                               a \in DOMAIN row /\ row[a] = d[a]
                        /\ "label" \notin DOMAIN row
                        /\ DOMAIN row \subseteq
                               {"subject", "relation", "object"} \cup DOMAIN d

\* C25, as stated: for any node attribute map, every node entry's label is
\* the node's own label attribute, else the node id, and its degree is the
\* node's degree in the graph handed to the serializer; after min_degree = 2
\* on the path A-B-C-D the entries of B and C have degree 1.
C25_NodeFields_AsStated ==
    \A p \in Workers :
        Serialized(p) =>
            LET h == heap[H[p]]
                b == resp[p].body
            IN  \A i \in DOMAIN b.nodes :
                    LET n == h.nodes[i]
                    IN  /\ b.nodes[i]["id"] = n
                        /\ b.nodes[i]["label"] = Get(h.nattr[n], "label", n)
                        /\ b.nodes[i]["degree"] = degree(h, n)

\* C25, amended: the label is the node's own label attribute, else the node
\* id; the degree is the node's own degree attribute when it has one, else
\* its degree in the graph handed to the serializer (the filtered graph, not
\* the original); after min_degree = 2 on the path A-B-C-D the entries of B
\* and C have degree 1.
C25_NodeFields ==
    \A p \in Workers :
        Serialized(p) =>
            LET h == heap[H[p]]
                b == resp[p].body
            IN  /\ \A i \in DOMAIN b.nodes :
                       LET n == h.nodes[i]
                       IN  /\ b.nodes[i]["id"] = n
                           /\ b.nodes[i]["label"] = Get(h.nattr[n], "label", n)
                           /\ b.nodes[i]["degree"] =
                                  Get(h.nattr[n], "degree", degree(h, n))
                /\ (heap[G[p]] = ScenarioGraph /\ req[p].min_degree = 2) =>
                       /\ {b.nodes[i]["id"] : i \in DOMAIN b.nodes} = {"B", "C"}
                       /\ \A i \in DOMAIN b.nodes : b.nodes[i]["degree"] = 1

\* The path A-B-C-D has been filtered with min_degree = 2 and serialized:
\* B and C, of degree 2 in the stored graph, have degree 1
C25_Witness ==
    /\ Serialized(1)
    /\ heap[G[1]] = ScenarioGraph
    /\ req[1].min_degree = 2
    /\ Len(resp[1].body.nodes) = 2
    /\ resp[1].body.nodes[1]["degree"] = 1
    /\ degree(heap[G[1]], resp[1].body.nodes[1]["id"]) = 2

\* C26, as stated: every serialized edge that has a relation attribute has
\* that relation as its label, and an edge without a relation attribute gets
\* no label from the serializer (its entry has a label only if the edge has
\* one, and then that one).
C26_EdgeLabel_AsStated ==
    \A p \in Workers :
        Serialized(p) =>
            LET h == heap[H[p]]
                b == resp[p].body
            IN  \A i \in DOMAIN b.edges :
                    LET d == h.edges[i].attr
                        e == b.edges[i]
                    IN  /\ "relation" \in DOMAIN d =>
                               "label" \in DOMAIN e /\ e["label"] = d["relation"]
                        /\ "relation" \notin DOMAIN d =>
                               /\ "label" \in DOMAIN e <=> "label" \in DOMAIN d
                               /\ "label" \in DOMAIN d => e["label"] = d["label"]

\* C26, amended: a serialized edge that has a relation attribute and no
\* label attribute of its own has that relation as its label; an edge that
\* has a label attribute keeps it; an edge with neither gets no label.
C26_EdgeLabel ==
    \A p \in Workers :
        Serialized(p) =>
            LET h == heap[H[p]]
                b == resp[p].body
            IN  \A i \in DOMAIN b.edges :
                    LET d == h.edges[i].attr
                        e == b.edges[i]
                    IN  /\ ("relation" \in DOMAIN d /\ "label" \notin DOMAIN d) =>
                               "label" \in DOMAIN e /\ e["label"] = d["relation"]
                        /\ "label" \in DOMAIN d =>
                               "label" \in DOMAIN e /\ e["label"] = d["label"]
                        /\ ("relation" \notin DOMAIN d /\ "label" \notin DOMAIN d) =>
                               "label" \notin DOMAIN e

\* A graph with an edge that has only a relation and an edge without
\* attributes has been serialized: the first has the relation as its label,
\* the second no label
C26_Witness ==
    /\ Serialized(1)
    /\ Len(resp[1].body.edges) = 2
    /\ heap[H[1]].edges[1].attr = ("relation" :> "cites")
    /\ heap[H[1]].edges[2].attr = EmptyMap
    /\ resp[1].body.edges[1]["label"] = "cites"
    /\ "label" \notin DOMAIN resp[1].body.edges[2]

\* C27: a filter that leaves no node is a valid result: when no node of G
\* matches the query, when every node of G is below min_degree, or when the
\* largest component of what the first two steps left has more than
\* max_nodes nodes, _filtered_graph returns a graph with no node and no edge,
\* and the response is 200 with {nodes: [], edges: []}.
C27_EmptyResult ==
    \A p \in Workers :
        Filtered(p) =>
            LET g     == heap[G[p]]
                mid   == heap[HSlot(p)]
                h     == heap[H[p]]
                q     == req[p].query
                empty == NodeSet(h) = {} /\ EdgeSet(h) = {}
            IN  /\ (q \notin {None, ""} /\ \A n \in NodeSet(g) : ~Matches(q, g, n)) => empty
                /\ (\A n \in NodeSet(g) : degree(g, n) < req[p].min_degree) => empty
                /\ (\E c \in Components(mid) : Cardinality(c) > req[p].max_nodes) => empty
                /\ pc[p] = "done" =>
                       /\ resp[p].status = 200
                       /\ empty => resp[p].body = [nodes |-> <<>>, edges |-> <<>>]

\* A connected graph of three nodes has been filtered with max_nodes = 2:
\* its one component does not fit and the response is the empty node-link
C27_Witness ==
    /\ Filtered(1)
    /\ pc[1] = "done"
    /\ req[1].max_nodes = 2
    /\ Cardinality(NodeSet(heap[HSlot(1)])) = 3
    /\ Cardinality(Components(heap[HSlot(1)])) = 1
    /\ H[1] = SSlot(1)
    /\ resp[1] = Ok([nodes |-> <<>>, edges |-> <<>>])

====
